---- MODULE Spec2Model ----
(***************************************************************************)
(* Owner-side orchestration of the encrypted range-query store             *)
(* (src/owner.go): NewOwner's key lifecycle, Insert, FindB / FindB2,       *)
(* DelegateKeys, GenSearcherConfig and retriveTkns, together with the      *)
(* dyadic range-cover codec they call.                                     *)
(*                                                                         *)
(* Modelling conventions                                                   *)
(*  - a timestamp is the unsigned Unix second count uint64(t.Unix()); the  *)
(*    model draws it from 0 .. 2^bits - 1, where the conversion is exact.  *)
(*  - a keyword "A:" + field + ":" + kw is the tuple <<"A", field>> \o kw.  *)
(*  - a marshalled value is the pair <<encoding, value>>; a ciphertext is  *)
(*    a record naming its policy, its plaintext and the public key.        *)
(***************************************************************************)
EXTENDS Integers, Sequences, FiniteSets, TLC

VARIABLES
    keyFile,    \* content of <StorePath>/keys on disk
    keys,       \* the ownerKeys of the Owner most recently constructed
    running,    \* TRUE while that Owner has been constructed and not closed
    kstat,      \* counters of what the start-ups did (starts, gens, writes, noFile)
    idx,        \* the index client's bookkeeping: (partition, keyword) pairs tagged
    nextId,     \* source of primitive.NewObjectID()
    srvDocs,    \* Remote Store: the documents it holds
    srvIdx,     \* Remote Store: the index entries it holds
    wire,       \* the submissions the last call made to the Remote Store
    call,       \* the last operation called, with its arguments and environment
    ret,        \* what that call returned
    hist,       \* history of Insert calls: ids of aborted batches, accepted records
    cov         \* the codec's last evaluation (range cover against insertion labels)

vars == <<keyFile, keys, running, kstat, idx, nextId, srvDocs, srvIdx, wire,
          call, ret, hist, cov>>

ownerVars == <<keyFile, keys, running, kstat>>
storeVars == <<idx, nextId, srvDocs, srvIdx, wire, hist>>

(***************************************************************************)
(* Bounds of the model                                                     *)
(***************************************************************************)
TimeBits == 2      \* record and query timestamps range over 0 .. 2^TimeBits - 1
CoverBits == 4     \* the codec is evaluated over 0 .. 2^CoverBits - 1
MaxIds == 2        \* document ids handed out over a run
MaxBatch == 2      \* records in one Insert call
MaxStarts == 3     \* owner start-ups on one store path

(***************************************************************************)
(* Program constants                                                       *)
(***************************************************************************)
Levels == 64       \* kws := make([]string, 64)

Pow2(n) == 2 ^ n
Times == 0 .. (Pow2(TimeBits) - 1)
CoverTimes == 0 .. (Pow2(CoverBits) - 1)

UserIds == {"u1", "u2"}
Locations == {"loc1", "loc2"}
ValidSets == {"grpA", "grpB"}
BadSet == "grp(A"
SetList == ValidSets \cup {BadSet}
ServerAddr == "store:50051"

Range(s) == {s[k] : k \in DOMAIN s}

(***************************************************************************)
(* RangeCoverCodec                                                         *)
(***************************************************************************)
\* intTime >> i on a uint64
RECURSIVE Shr(_, _)
Shr(v, i) == IF i = 0 \/ v = 0 THEN v ELSE Shr(v \div 2, i - 1)

\* makeTimeKW(prefix, level): the level-qualified encoding of a trie node
makeTimeKW(prefix, level) == <<level, prefix>>

\* faulty variant: the ancestor chain starts one level above the leaf
insertionLabelsSkipLeaf(v) == [k \in 1 .. Levels |-> makeTimeKW(Shr(v, k), k)]

\* retriveTkns, first loop: kws[i] = makeTimeKW(intTime>>i, i), i = 0..63
insertionLabels(v) == [k \in 1 .. Levels |-> makeTimeKW(Shr(v, k - 1), k - 1)]

\* the level of the largest aligned block that starts at a and fits in [a, b]
RECURSIVE BlockLevel(_, _, _)
BlockLevel(a, b, k) ==
    IF k + 1 <= Levels - 1 /\ a % Pow2(k + 1) = 0 /\ a + Pow2(k + 1) - 1 <= b
    THEN BlockLevel(a, b, k + 1)
    ELSE k

\* getBRCKWs(a, b): the minimal canonical dyadic cover of [a, b]
RECURSIVE rangeCover(_, _)
rangeCover(a, b) ==
    IF a > b THEN <<>>
    ELSE LET k == BlockLevel(a, b, 0)
         IN  <<makeTimeKW(Shr(a, k), k)>> \o rangeCover(a + Pow2(k), b)

(***************************************************************************)
(* Codec evaluation: one cover against one timestamp's labels              *)
(***************************************************************************)
CovInput(a, b, v) == [done |-> FALSE, a |-> a, b |-> b, v |-> v, cover |-> <<>>, labels |-> <<>>]
CovIdle == CovInput(0, 0, 0)

\* getBRCKWs(a, b) as FindB calls it and the labels retriveTkns tags for v
EvalCover ==
    /\ ~cov.done
    /\ cov' = [cov EXCEPT !.done = TRUE, !.cover = rangeCover(cov.a, cov.b),
                          !.labels = insertionLabels(cov.v)]
    /\ UNCHANGED <<ownerVars, storeVars, call, ret>>

(***************************************************************************)
(* Key store: NewOwner's init-or-load of <StorePath>/keys                  *)
(***************************************************************************)
NilKey == [kind |-> "nil", n |-> 0]
NoKeys == [ABEPK |-> NilKey, ABESK |-> NilKey]            \* keys := &ownerKeys{}

\* aBE.GenerateMasterKeys(): a fresh pair at every call
GenerateMasterKeys(n) == [ABEPK |-> [kind |-> "pk", n |-> n], ABESK |-> [kind |-> "sk", n |-> n]]

AbsentFile == [state |-> "absent", enc |-> "none", data |-> NoKeys]
PartialFile == [state |-> "partial", enc |-> "json", data |-> NoKeys]

\* json.Marshal(keys) written by os.WriteFile
jsonKeysFile(k) == [state |-> "whole", enc |-> "json", data |-> k]

\* json.Unmarshal(jsonKeys, keys): fails on a truncated or non-JSON file
jsonUnmarshalKeys(file) ==
    IF file.state = "whole" /\ file.enc = "json"
    THEN [err |-> "nil", keys |-> file.data]
    ELSE [err |-> "unmarshal", keys |-> NoKeys]

StartFaults == {"none", "mfast", "gen", "writeOpen", "writePartial", "read", "dial"}

\* faulty variant: a key file that cannot be parsed is regenerated and overwritten
LoadOrInitReplacing(file, n, fault) ==
    IF file.state = "absent" \/ jsonUnmarshalKeys(file).err # "nil"
    THEN IF fault = "gen"
         THEN [err |-> "gen", keys |-> NoKeys, file |-> file, gen |-> 0, wr |-> 0, noFile |-> 1]
         ELSE LET pair == GenerateMasterKeys(n + 1)
              IN  CASE fault = "writeOpen" ->
                         [err |-> "write", keys |-> pair, file |-> file,
                          gen |-> 1, wr |-> 0, noFile |-> 1]
                    [] fault = "writePartial" ->
                         [err |-> "write", keys |-> pair, file |-> PartialFile,
                          gen |-> 1, wr |-> 0, noFile |-> 1]
                    [] OTHER ->
                         [err |-> "nil", keys |-> pair, file |-> jsonKeysFile(pair),
                          gen |-> 1, wr |-> 1, noFile |-> 1]
    ELSE IF fault = "read"
         THEN [err |-> "read", keys |-> NoKeys, file |-> file, gen |-> 0, wr |-> 0, noFile |-> 0]
         ELSE [err |-> "nil", keys |-> jsonUnmarshalKeys(file).keys, file |-> file,
               gen |-> 0, wr |-> 0, noFile |-> 0]

\* NewOwner, the key block: n pairs were generated so far on this path
LoadOrInit(file, n, fault) ==
    IF file.state = "absent"                                \* os.IsNotExist(err)
    THEN IF fault = "gen"
         THEN [err |-> "gen", keys |-> NoKeys, file |-> file, gen |-> 0, wr |-> 0, noFile |-> 1]
         ELSE LET pair == GenerateMasterKeys(n + 1)
              IN  CASE fault = "writeOpen" ->
                         [err |-> "write", keys |-> pair, file |-> file,
                          gen |-> 1, wr |-> 0, noFile |-> 1]
                    [] fault = "writePartial" ->
                         [err |-> "write", keys |-> pair, file |-> PartialFile,
                          gen |-> 1, wr |-> 0, noFile |-> 1]
                    [] OTHER ->
                         [err |-> "nil", keys |-> pair, file |-> jsonKeysFile(pair),
                          gen |-> 1, wr |-> 1, noFile |-> 1]
    ELSE IF fault = "read"                                  \* os.ReadFile fails
         THEN [err |-> "read", keys |-> NoKeys, file |-> file, gen |-> 0, wr |-> 0, noFile |-> 0]
         ELSE LET u == jsonUnmarshalKeys(file)
              IN  [err |-> u.err, keys |-> u.keys, file |-> file,
                   gen |-> 0, wr |-> 0, noFile |-> 0]

NoArgs == [op |-> "none", set |-> "", loc |-> "", a |-> 0, b |-> 0, recs |-> <<>>,
           env |-> "none", fault |-> [at |-> 0, stage |-> "none", n |-> 0], firstId |-> 0]
NoRet == [err |-> "nil", val |-> <<>>]

\* the caller is between two calls
Idle == call.op = "none"

\* the caller has looked at what the call returned and goes on
Return ==
    /\ ~Idle
    /\ call' = NoArgs
    /\ ret' = NoRet
    /\ wire' = <<>>
    /\ UNCHANGED <<ownerVars, idx, nextId, srvDocs, srvIdx, hist, cov>>

\* NewOwner(config)
NewOwner(fault) ==
    /\ Idle
    /\ ~running
    /\ kstat.starts < MaxStarts
    /\ call' = [NoArgs EXCEPT !.op = "NewOwner", !.env = fault]
    /\ IF fault = "mfast"                                   \* mfast.NewOwner fails
       THEN /\ ret' = [err |-> "mfast", val |-> <<>>]
            /\ kstat' = [kstat EXCEPT !.starts = @ + 1]
            /\ keys' = NoKeys
            /\ UNCHANGED <<keyFile, running>>
       ELSE LET r == LoadOrInit(keyFile, kstat.gens, fault)
                err == IF r.err # "nil" THEN r.err
                       ELSE IF fault = "dial" THEN "dial" ELSE "nil"
            IN  /\ keyFile' = r.file
                /\ kstat' = [starts |-> kstat.starts + 1, gens |-> kstat.gens + r.gen,
                             writes |-> kstat.writes + r.wr,
                             noFile |-> kstat.noFile + r.noFile]
                /\ ret' = [err |-> err, val |-> <<>>]
                /\ running' = (err = "nil")
                /\ keys' = IF err = "nil" THEN r.keys ELSE NoKeys
    /\ UNCHANGED <<storeVars, cov>>

\* Owner.Close, or the process ending
Close ==
    /\ Idle
    /\ running
    /\ running' = FALSE
    /\ keys' = NoKeys
    /\ call' = [NoArgs EXCEPT !.op = "Close"]
    /\ ret' = NoRet
    /\ UNCHANGED <<keyFile, kstat, storeVars, cov>>

(***************************************************************************)
(* Delegation                                                              *)
(***************************************************************************)
\* aBE.GenerateAttribKeys(attrs, msk): a key for attrs under master pair msk.n
GenerateAttribKeys(attrs, msk) == [kind |-> "attrKey", n |-> msk.n, attrs |-> attrs]

\* mfastOwner.DelegateKeys(set): the index-delegation secret of one partition
mfastDelegateKeys(set) == [kind |-> "mfastKeys", set |-> set]

\* faulty variant: the owner's key pair is bundled whole
DelegatedKeysWithMaster(set, k) ==
    [Set |-> set, MFastKeys |-> mfastDelegateKeys(set),
     ABEAttrK |-> k.ABESK, ABEPK |-> k.ABEPK]

\* the DelegatedKeys literal DelegateKeys returns
DelegatedKeys(set, k) ==
    [Set |-> set, MFastKeys |-> mfastDelegateKeys(set),
     ABEAttrK |-> GenerateAttribKeys({set}, k.ABESK), ABEPK |-> k.ABEPK]

DelegateFaults == {"none", "attrKey", "mfast"}

\* Owner.DelegateKeys(set)
DelegateKeys(set, fault) ==
    /\ Idle
    /\ running
    /\ call' = [NoArgs EXCEPT !.op = "DelegateKeys", !.set = set, !.env = fault]
    /\ ret' = IF fault = "none"
              THEN [err |-> "nil", val |-> DelegatedKeys(set, keys)]
              ELSE [err |-> fault, val |-> <<>>]
    /\ UNCHANGED <<ownerVars, storeVars, cov>>

\* Owner.GenSearcherConfig(set): json.MarshalIndent of the SearcherConfig
GenSearcherConfig(set, fault) ==
    /\ Idle
    /\ running
    /\ call' = [NoArgs EXCEPT !.op = "GenSearcherConfig", !.set = set, !.env = fault]
    /\ ret' = IF fault = "none"
              THEN [err |-> "nil",
                    val |-> [enc |-> "json",
                             cfg |-> [SetList |-> SetList, Keys |-> DelegatedKeys(set, keys),
                                      ServerAddr |-> ServerAddr]]]
              ELSE [err |-> fault, val |-> <<>>]
    /\ UNCHANGED <<ownerVars, storeVars, cov>>

(***************************************************************************)
(* Field encryption                                                        *)
(***************************************************************************)
Records == [UserId : UserIds, Location : Locations, Set : SetList, Time : Times]

\* abe.BooleanToMSP(rec.Set, false): a one-attribute policy, or an error
BooleanToMSP(set) ==
    IF set = BadSet THEN [err |-> "policy", attr |-> ""] ELSE [err |-> "nil", attr |-> set]

\* json.Marshal(aBE.Encrypt(pt, msp, pk))
Encrypt(pt, msp, pk) == [enc |-> "json", policy |-> msp.attr, pt |-> pt, n |-> pk.n]

\* rec.Time.Format(time.RFC1123)
FormatTime(t) == <<"RFC1123", t>>

\* aBE.Decrypt(cipher, attrKey, pk) after json.Unmarshal, whose error is dropped:
\* a ciphertext that did not parse decrypts to an error as well
Decrypt(c, ak, pk) ==
    IF c.enc # "json" THEN [err |-> "DecodeError", pt |-> ""]
    ELSE IF c.policy \in ak.attrs /\ c.n = ak.n /\ c.n = pk.n
         THEN [err |-> "nil", pt |-> c.pt]
         ELSE [err |-> "AccessDenied", pt |-> ""]

\* bson.Marshal(newRec) wrapped in a Document
EncryptRecord(id, rec, pk) ==
    LET msp == BooleanToMSP(rec.Set)
    IN  [id |-> id, enc |-> "bson",
         f |-> [UserId |-> Encrypt(rec.UserId, msp, pk),
                Location |-> Encrypt(rec.Location, msp, pk),
                Time |-> Encrypt(FormatTime(rec.Time), msp, pk),
                Set |-> Encrypt(rec.Set, msp, pk)]]

(***************************************************************************)
(* Index client (mfast.Owner)                                              *)
(***************************************************************************)
\* faulty variant: the location token is keyed by the user id as well
UpdateCallsUserTwice(id, rec) ==
    LET kws == insertionLabels(rec.Time)
    IN  [c \in 1 .. 2 * Levels |->
            LET kw == kws[(c + 1) \div 2]
            IN  [id |-> id, set |-> rec.Set, op |-> "add",
                 kw |-> IF c % 2 = 1 THEN <<"A", rec.UserId>> \o kw
                                     ELSE <<"B", rec.UserId>> \o kw]]

\* the 2*64 GenUpdateTkn calls of retriveTkns, in call order
UpdateCalls(id, rec) ==
    LET kws == insertionLabels(rec.Time)
    IN  [c \in 1 .. 2 * Levels |->
            LET kw == kws[(c + 1) \div 2]
            IN  [id |-> id, set |-> rec.Set, op |-> "add",
                 kw |-> IF c % 2 = 1 THEN <<"A", rec.UserId>> \o kw
                                     ELSE <<"B", rec.Location>> \o kw]]

\* Token{Binary: json.Marshal(mfastTkn)}
UpdateToken(u) == [enc |-> "json", tkn |-> u]

\* Owner.retriveTkns(id, rec) against bookkeeping ix; failAt = 0 when no
\* GenUpdateTkn call fails, else the number of the failing call
retriveTkns(id, rec, ix, failAt) ==
    LET calls == UpdateCalls(id, rec)
        made == IF failAt = 0 THEN 2 * Levels ELSE failAt - 1
    IN  [err |-> IF failAt = 0 THEN "nil" ELSE "tag",
         tkns |-> IF failAt = 0 THEN [c \in 1 .. 2 * Levels |-> UpdateToken(calls[c])]
                                ELSE <<>>,
         idx |-> ix \cup {<<calls[c].set, calls[c].kw>> : c \in 1 .. made}]

\* mfastOwner.GenSearchTkn(set, kw): absent when the keyword was never tagged
GenSearchTkn(set, kw, ix) ==
    IF <<set, kw>> \in ix THEN [nil |-> FALSE, set |-> set, kw |-> kw]
                          ELSE [nil |-> TRUE, set |-> set, kw |-> kw]

(***************************************************************************)
(* Remote Store                                                            *)
(***************************************************************************)
\* ServerService.Insert: stores the documents and the decoded update tokens
StoreInsert(docs, tkns, sd, si) ==
    [docs |-> sd \cup Range(docs),
     idx |-> si \cup {<<t.tkn.set, t.tkn.kw, t.tkn.id>> : t \in Range(tkns)}]

\* the documents of ds in id order
RECURSIVE SortById(_)
SortById(ds) ==
    IF ds = {} THEN <<>>
    ELSE LET d == CHOOSE x \in ds : \A y \in ds : x.id <= y.id
         IN  <<d>> \o SortById(ds \ {d})

Project(d, fields) == [id |-> d.id, enc |-> d.enc, f |-> [x \in fields |-> d.f[x]]]

\* ServerService.Find: the stored documents with an entry matching a token
StoreFind(fields, tkns, sd, si) ==
    LET hit == {e[3] : e \in {x \in si : \E t \in Range(tkns) :
                                          t.tkn.set = x[1] /\ t.tkn.kw = x[2]}}
        ds == SortById({d \in sd : d.id \in hit})
    IN  [k \in DOMAIN ds |-> Project(ds[k], fields)]


\* res, err := owner.client.X(...): the transport error, else the status
StoreReply(env) ==
    CASE env = "transportErr" -> [err |-> "unavailable", msg |-> ""]
      [] env = "statusErr" -> [err |-> "nil", msg |-> "store failure"]
      [] OTHER -> [err |-> "nil", msg |-> "Ok"]

\* faulty variant: only the transport error is looked at
RemoteErrIgnoringStatus(reply) == reply.err

\* if err != nil { return err } else if res.Msg != "Ok" { return errors.New(res.Msg) }
RemoteErr(reply) ==
    IF reply.err # "nil" THEN reply.err
    ELSE IF reply.msg # "Ok" THEN reply.msg ELSE "nil"

(***************************************************************************)
(* Insert                                                                  *)
(***************************************************************************)
NoFault == [at |-> 0, stage |-> "none", n |-> 0]

\* where a primitive may fail during a batch: one GenUpdateTkn call (the second
\* or the last of a record) or one field encryption
InsertFaults(recs) ==
    {NoFault}
    \cup {[at |-> i, stage |-> "tag", n |-> c] : i \in DOMAIN recs, c \in {2, 2 * Levels}}
    \cup {[at |-> i, stage |-> "encrypt", n |-> 0] : i \in DOMAIN recs}

\* the for loop of Insert from record i on; the result holds the locals as they
\* are when the loop is left: by an early return (err) or at its end
RECURSIVE InsertLoop(_, _, _, _, _, _, _, _)
InsertLoop(recs, i, id, ix, docs, tkns, fault, pk) ==
    IF i > Len(recs)
    THEN [err |-> "nil", docs |-> docs, tkns |-> tkns, idx |-> ix, nextId |-> id]
    ELSE LET rec == recs[i]
             r == CHOOSE x \in {retriveTkns(id, rec, ix,
                              IF fault.at = i /\ fault.stage = "tag" THEN fault.n ELSE 0)} : TRUE
             left == [err |-> "nil", docs |-> docs, tkns |-> tkns, idx |-> r.idx,
                      nextId |-> id + 1]
         IN  IF r.err # "nil" THEN [left EXCEPT !.err = r.err]
             ELSE IF BooleanToMSP(rec.Set).err # "nil"
                  THEN [left EXCEPT !.err = "policy", !.tkns = tkns \o r.tkns]
             ELSE IF fault.at = i /\ fault.stage = "encrypt"
                  THEN [left EXCEPT !.err = "encrypt", !.tkns = tkns \o r.tkns]
             ELSE InsertLoop(recs, i + 1, id + 1, r.idx,
                             Append(docs, EncryptRecord(id, rec, pk)),
                             tkns \o r.tkns, fault, pk)

\* faulty variant: what was built is sent even when the loop was left early
InsertSubmissionEager(L) ==
    <<[kind |-> "Insert", fields |-> {}, docs |-> L.docs, tkns |-> L.tkns]>>

\* the InsertQuery handed to owner.client.Insert, if the loop got that far
InsertSubmission(L) ==
    IF L.err = "nil"
    THEN <<[kind |-> "Insert", fields |-> {}, docs |-> L.docs, tkns |-> L.tkns]>>
    ELSE <<>>

WithReply(sub, reply, docs) ==
    [kind |-> sub.kind, fields |-> sub.fields, docs |-> sub.docs, tkns |-> sub.tkns,
     reply |-> [err |-> reply.err, msg |-> reply.msg, docs |-> docs]]

Batches == UNION {[1 .. n -> Records] : n \in 0 .. MaxBatch}
InsertEnvs == {"ok", "transportErr", "statusErr"}

\* Owner.Insert(ctx, recs)
Insert(recs, fault, env) ==
    /\ Idle
    /\ running
    /\ nextId + Len(recs) - 1 <= MaxIds
    /\ \E L \in {InsertLoop(recs, 1, nextId, idx, <<>>, <<>>, fault, keys.ABEPK)} :
       LET subs == InsertSubmission(L)
           reply == StoreReply(env)
           err == IF subs = <<>> THEN L.err ELSE RemoteErr(reply)
           stored == subs # <<>> /\ reply.err = "nil" /\ reply.msg = "Ok"
           S == IF stored THEN StoreInsert(subs[1].docs, subs[1].tkns, srvDocs, srvIdx)
                          ELSE [docs |-> srvDocs, idx |-> srvIdx]
       IN  /\ call' = [NoArgs EXCEPT !.op = "Insert", !.recs = recs, !.fault = fault,
                                     !.firstId = nextId,
                                     !.env = IF subs = <<>> THEN "none" ELSE env]
           /\ idx' = L.idx
           /\ nextId' = L.nextId
           /\ wire' = [k \in DOMAIN subs |-> WithReply(subs[k], reply, <<>>)]
           /\ srvDocs' = S.docs
           /\ srvIdx' = S.idx
           /\ ret' = [err |-> err, val |-> <<>>]
           /\ hist' = [aborted |-> hist.aborted \cup
                                    (IF L.err # "nil" THEN nextId .. (L.nextId - 1) ELSE {}),
                       accepted |-> hist.accepted \cup
                                    (IF err = "nil"
                                     THEN {[id |-> nextId + k - 1, rec |-> recs[k]] :
                                              k \in DOMAIN recs}
                                     ELSE {}),
                       failed |-> hist.failed \/ err # "nil"]
    /\ UNCHANGED <<ownerVars, cov>>


(***************************************************************************)
(* FindB / FindB2                                                          *)
(***************************************************************************)
\* faulty variant: the query keywords carry the user dimension's prefix
FindKWsUserPrefix(loc, a, b) ==
    LET tKWs == rangeCover(a, b)
    IN  [k \in DOMAIN tKWs |-> <<"A", loc>> \o tKWs[k]]

\* kws[i] = "B:" + loc + ":" + tKW over getBRCKWs(timeA, timeB)
FindKWs(loc, a, b) ==
    LET tKWs == rangeCover(a, b)
    IN  [k \in DOMAIN tKWs |-> <<"B", loc>> \o tKWs[k]]

\* Token{Binary: bson.Marshal(searchTkn)}
SearchToken(st) == [enc |-> "bson", tkn |-> [set |-> st.set, kw |-> st.kw]]

\* faulty variant: an absent trapdoor is marshalled and sent like a present one
FindTknsKeepingAbsent(set, loc, a, b, ix) ==
    LET kws == FindKWs(loc, a, b)
    IN  [k \in DOMAIN kws |-> SearchToken(GenSearchTkn(set, kws[k], ix))]

\* the trapdoor loop: a nil search token is skipped
FindTkns(set, loc, a, b, ix) ==
    LET kws == FindKWs(loc, a, b)
        sts == [k \in DOMAIN kws |-> GenSearchTkn(set, kws[k], ix)]
        Present(st) == ~st.nil
        got == SelectSeq(sts, Present)
    IN  [k \in DOMAIN got |-> SearchToken(got[k])]

RequestedFields(op) == IF op = "FindB" THEN {"UserId"} ELSE {"UserId", "Set"}

Garbled == [enc |-> "garbled", policy |-> "", pt |-> "", n |-> 0]

FindEnvs == {"ok", "tknErr", "transportErr", "statusErr", "foreign", "corrupt", "undecodable"}

\* what the store sends back: env "ok" is the store the interface describes;
\* "foreign" returns every stored document, "corrupt" damages the first
\* document's UserId ciphertext, "undecodable" damages its BSON framing
FindReplyDocs(env, fields, tkns, sd, si) ==
    LET all == [k \in 1 .. Cardinality(sd) |-> Project(SortById(sd)[k], fields)]
    IN  CASE env = "ok" -> StoreFind(fields, tkns, sd, si)
          [] env = "foreign" -> all
          [] env = "corrupt" ->
                [k \in DOMAIN all |->
                    IF k = 1 THEN [all[k] EXCEPT !.f.UserId = Garbled] ELSE all[k]]
          [] env = "undecodable" ->
                [k \in DOMAIN all |-> IF k = 1 THEN [all[k] EXCEPT !.enc = "garbled"] ELSE all[k]]
          [] OTHER -> <<>>

\* results[i] of the decrypt loop: userId, _ := owner.aBE.Decrypt(...)
FindResult(op, doc, set, k) ==
    LET ak == GenerateAttribKeys({set}, k.ABESK)
    IN  [x \in RequestedFields(op) |-> Decrypt(doc.f[x], ak, k.ABEPK).pt]

\* the decrypt loop over findRes.GetDocs(): bson.Unmarshal failing on one
\* document returns the error for the whole call
DecryptDocs(op, docs, set, k) ==
    IF \E i \in DOMAIN docs : docs[i].enc # "bson"
    THEN [err |-> "DecodeError", val |-> <<>>]
    ELSE [err |-> "nil", val |-> [i \in DOMAIN docs |-> FindResult(op, docs[i], set, k)]]

\* Owner.FindB and Owner.FindB2, which differ in the requested fields
Find(op, set, loc, a, b, env) ==
    /\ Idle
    /\ running
    /\ a <= b
    /\ \E tkns \in {FindTkns(set, loc, a, b, idx)} :
       \E docs \in {IF RemoteErr(StoreReply(env)) = "nil"
                     THEN FindReplyDocs(env, RequestedFields(op), tkns, srvDocs, srvIdx)
                     ELSE <<>>} :
       LET fields == RequestedFields(op)
           reply == StoreReply(env)
           rerr == RemoteErr(reply)
           sub == [kind |-> "Find", fields |-> fields, docs |-> <<>>, tkns |-> tkns]
       IN  /\ call' = [NoArgs EXCEPT !.op = op, !.set = set, !.loc = loc, !.a = a, !.b = b,
                                     !.env = env]
           /\ IF env = "tknErr"                         \* GenSearchTkn returns an error
              THEN /\ wire' = <<>>
                   /\ ret' = [err |-> "searchTkn", val |-> <<>>]
              ELSE /\ wire' = <<WithReply(sub, reply, docs)>>
                   /\ ret' = IF rerr # "nil" THEN [err |-> rerr, val |-> <<>>]
                             ELSE DecryptDocs(op, docs, set, keys)
    /\ UNCHANGED <<ownerVars, idx, nextId, srvDocs, srvIdx, hist, cov>>

(***************************************************************************)
(* Specifications                                                          *)
(***************************************************************************)
NoHist == [aborted |-> {}, accepted |-> {}, failed |-> FALSE]

\* the store side before any call
StoreInit ==
    /\ idx = {}
    /\ nextId = 1
    /\ srvDocs = {}
    /\ srvIdx = {}
    /\ wire = <<>>
    /\ hist = NoHist
    /\ cov = CovIdle

\* an Owner constructed by a first, fault-free NewOwner
Init ==
    /\ keyFile = jsonKeysFile(GenerateMasterKeys(1))
    /\ keys = GenerateMasterKeys(1)
    /\ running = TRUE
    /\ kstat = [starts |-> 1, gens |-> 1, writes |-> 1, noFile |-> 1]
    /\ call = NoArgs
    /\ ret = NoRet
    /\ StoreInit

QuerySets == ValidSets
Ops == {"FindB", "FindB2"}

\* records with a partition label that compiles, primitives that do not fail
\* and a store that answers Ok with what matches: every Insert succeeds
ValidBatches == {recs \in Batches : \A k \in DOMAIN recs : recs[k].Set \in ValidSets}

Next ==
    \/ \E recs \in ValidBatches : Insert(recs, NoFault, "ok")
    \/ \E op \in Ops : \E set \in QuerySets : \E loc \in Locations :
          \E a \in Times : \E b \in Times : Find(op, set, loc, a, b, "ok")
    \/ Return

Spec == Init /\ [][Next]_vars

\* the same calls when a label may not compile, primitives may fail and the
\* store may reject, fail or answer with documents that do not match; the
\* records vary in their label
FaultRecords == {r \in Records : r.UserId = "u1" /\ r.Location = "loc1" /\ r.Time = 0}
FaultBatches == UNION {[1 .. n -> FaultRecords] : n \in 0 .. MaxBatch}

NextFaults ==
    \/ \E recs \in FaultBatches : \E fault \in InsertFaults(recs) : \E env \in InsertEnvs :
          Insert(recs, fault, env)
    \/ \E op \in Ops : \E set \in QuerySets : \E loc \in Locations :
          \E a \in Times : \E b \in Times : \E env \in FindEnvs :
             Find(op, set, loc, a, b, env)
    \/ Return

SpecFaults == Init /\ [][NextFaults]_vars

\* a store path on which no owner has started yet
InitKeys ==
    /\ keyFile = AbsentFile
    /\ keys = NoKeys
    /\ running = FALSE
    /\ kstat = [starts |-> 0, gens |-> 0, writes |-> 0, noFile |-> 0]
    /\ call = NoArgs
    /\ ret = NoRet
    /\ StoreInit

NextKeys ==
    \/ \E fault \in StartFaults : NewOwner(fault)
    \/ Close
    \/ \E set \in SetList : \E fault \in DelegateFaults : DelegateKeys(set, fault)
    \/ \E set \in SetList : \E fault \in DelegateFaults : GenSearcherConfig(set, fault)
    \/ Return

SpecKeys == InitKeys /\ [][NextKeys]_vars

\* the codec alone: the inputs are drawn at the start and evaluated once
InitCover ==
    /\ keyFile = AbsentFile
    /\ keys = NoKeys
    /\ running = FALSE
    /\ kstat = [starts |-> 0, gens |-> 0, writes |-> 0, noFile |-> 0]
    /\ call = NoArgs
    /\ ret = NoRet
    /\ idx = {}
    /\ nextId = 1
    /\ srvDocs = {}
    /\ srvIdx = {}
    /\ wire = <<>>
    /\ hist = NoHist
    /\ cov \in {CovInput(a, b, v) : a \in CoverTimes, b \in CoverTimes, v \in CoverTimes}
    /\ cov.a <= cov.b

NextCover == EvalCover

SpecCover == InitCover /\ [][NextCover]_vars

(***************************************************************************)
(* Properties                                                              *)
(***************************************************************************)
LocalErrs == {"tag", "policy", "encrypt"}
IsFind == call.op \in Ops
Submitted == Len(wire) = 1

\* C1: for a <= b, a timestamp v inside [a, b] has exactly one of its 64
\* insertion labels in rangeCover(a, b), and a timestamp outside has none.
C1_RangeCoverMatchesLabels ==
    cov.done =>
        LET hits == {k \in DOMAIN cov.cover : cov.cover[k] \in Range(cov.labels)}
        IN  IF cov.a <= cov.v /\ cov.v <= cov.b THEN Cardinality(hits) = 1 ELSE hits = {}

\* a timestamp strictly inside a range whose cover has three labels or more
C1_Witness ==
    cov.done /\ cov.a < cov.v /\ cov.v < cov.b /\ Len(cov.cover) >= 3
             /\ Len(cov.labels) = Levels

\* C2: an Insert that fails locally (tagging, policy compilation, encryption)
\* makes no call to the Remote Store, and no document or index entry of an
\* aborted batch is ever held by the store or returned by a Find.
C2_InsertAllOrNothing ==
    /\ (call.op = "Insert" /\ ret.err \in LocalErrs) => wire = <<>>
    /\ \A d \in srvDocs : d.id \notin hist.aborted
    /\ \A e \in srvIdx : e[3] \notin hist.aborted
    /\ (IsFind /\ Submitted) =>
          \A i \in DOMAIN wire[1].reply.docs : wire[1].reply.docs[i].id \notin hist.aborted

\* a batch of two whose second record has the label that does not compile
C2_Witness ==
    /\ call.op = "Insert" /\ Len(call.recs) = 2 /\ ret.err = "policy"
    /\ call.recs[1].Set \in ValidSets /\ call.recs[2].Set = BadSet
    /\ call.firstId \in hist.aborted

\* the accepted records a query (set, loc, [a, b]) is about
Matching ==
    {x \in hist.accepted : /\ x.rec.Set = call.set
                           /\ x.rec.Location = call.loc
                           /\ call.a <= x.rec.Time /\ x.rec.Time <= call.b}

\* C3: after successful Inserts only, a FindB/FindB2 on (S, L, [tA, tB])
\* against a store that matches faithfully returns no error and exactly one
\* result per accepted record with that Set, Location and a Time in the
\* range, each result carrying the UserId of its record.
C3_FindRangeExact ==
    (IsFind /\ call.env = "ok" /\ ~hist.failed) =>
        /\ ret.err = "nil"
        /\ Submitted
        /\ Len(ret.val) = Cardinality(Matching)
        /\ Len(wire[1].reply.docs) = Len(ret.val)
        /\ \A x \in Matching :
              Cardinality({i \in DOMAIN ret.val :
                              /\ wire[1].reply.docs[i].id = x.id
                              /\ ret.val[i].UserId = x.rec.UserId}) = 1

\* two accepted records, one of which the query matches
C3_Witness ==
    /\ IsFind /\ Cardinality(hist.accepted) = 2 /\ Cardinality(Matching) = 1
    /\ Len(ret.val) = 1 /\ call.a < call.b

\* C4 as claimed: when a returned document's UserId cannot be decrypted, the
\* call still delivers one result per returned document and the result of the
\* failing document is not the zero value.
C4_DecryptFailureReported ==
    (IsFind /\ Submitted /\ RemoteErr(wire[1].reply) = "nil") =>
        LET docs == wire[1].reply.docs
            ak == GenerateAttribKeys({call.set}, keys.ABESK)
        IN  /\ ret.err = "nil"
            /\ Len(ret.val) = Len(docs)
            /\ \A i \in DOMAIN docs :
                  Decrypt(docs[i].f.UserId, ak, keys.ABEPK).err # "nil"
                     => ret.val[i].UserId # ""

CredOk(c, set) ==
    /\ DOMAIN c = {"Set", "MFastKeys", "ABEAttrK", "ABEPK"}
    /\ c.Set = set
    /\ c.MFastKeys.kind = "mfastKeys" /\ c.MFastKeys.set = set
    /\ c.ABEAttrK.kind = "attrKey" /\ c.ABEAttrK.attrs = {set}
    /\ c.ABEPK.kind = "pk" /\ c.ABEPK = keys.ABEPK

\* C5: the credential of DelegateKeys holds the partition name, that
\* partition's index-delegation secret, an attribute key for {partition} and
\* the public key, and nothing else; the exported document adds the partition
\* list and the endpoint; neither holds the master secret key, and neither
\* call changes the owner's key pair or the key file.
C5_DelegationCarriesNoMasterSecret ==
    /\ [](/\ (call.op = "DelegateKeys" /\ ret.err = "nil") => CredOk(ret.val, call.set)
          /\ (call.op = "GenSearcherConfig" /\ ret.err = "nil") =>
                /\ DOMAIN ret.val.cfg = {"SetList", "Keys", "ServerAddr"}
                /\ ret.val.cfg.SetList = SetList
                /\ ret.val.cfg.ServerAddr = ServerAddr
                /\ CredOk(ret.val.cfg.Keys, call.set))
    /\ [][call'.op \in {"DelegateKeys", "GenSearcherConfig"} =>
             (keys' = keys /\ keyFile' = keyFile)]_vars

\* a configuration exported by an owner that loaded its pair on a later start
C5_Witness ==
    /\ call.op = "GenSearcherConfig" /\ ret.err = "nil"
    /\ kstat.starts >= 2 /\ keys.ABESK.kind = "sk"

\* C6 as claimed: over all start-ups on the path a pair is generated and
\* written once and no more, and an owner that runs rests on that one
\* generation and that one write.
C6_GeneratedAndWrittenOnce ==
    /\ kstat.gens <= 1
    /\ kstat.writes <= 1
    /\ running => (kstat.gens = 1 /\ kstat.writes = 1)

\* C6 as amended: the key file is written in full at most once; once a file
\* exists no start-up generates a pair or touches the file; an owner that runs
\* holds exactly the persisted pair; a start-up that finds a file it cannot
\* read or parse fails.
C6_PersistedPairNeverReplaced ==
    /\ [](/\ kstat.writes <= 1
          /\ (keyFile.state = "whole") <=> (kstat.writes = 1)
          /\ running => (keyFile.state = "whole" /\ keys = keyFile.data))
    /\ [][keyFile.state # "absent" =>
             /\ keyFile' = keyFile
             /\ kstat'.gens = kstat.gens /\ kstat'.writes = kstat.writes
             /\ (call'.op = "NewOwner" /\ ~Idle' /\ Idle
                   /\ (call'.env = "read" \/ keyFile.state = "partial"))
                  => (ret'.err # "nil" /\ ~running')]_vars

\* a later start-up that loaded the pair the first one wrote
C6_Witness ==
    /\ call.op = "NewOwner" /\ running /\ kstat.starts >= 2
    /\ kstat.gens = 1 /\ kstat.noFile = 1 /\ keys = keyFile.data

\* C7: when the store's reply is a transport error or a status other than
\* "Ok", Insert, FindB and FindB2 return that error and no results; they
\* return success only on status "Ok".
C7_RemoteStatusSurfaced ==
    ((call.op = "Insert" \/ IsFind) /\ Submitted) =>
        LET r == wire[1].reply
        IN  /\ r.err # "nil" => (ret.err = r.err /\ ret.val = <<>>)
            /\ (r.err = "nil" /\ r.msg # "Ok") => (ret.err = r.msg /\ ret.val = <<>>)
            /\ ret.err = "nil" => (r.err = "nil" /\ r.msg = "Ok")

\* a query the store answered with a failure status
C7_Witness ==
    /\ IsFind /\ Submitted /\ wire[1].reply.err = "nil"
    /\ wire[1].reply.msg = "store failure" /\ ret.err = "store failure"

\* the update token of record rec, document id, dimension dim on field, level i
ExpectedToken(id, rec, dim, field, i) ==
    [enc |-> "json",
     tkn |-> [id |-> id, set |-> rec.Set, op |-> "add",
              kw |-> <<dim, field, i, Shr(rec.Time, i)>>]]

\* C8: an Insert of n records that reaches the store makes one submission,
\* after all tagging, with n documents and 128*n update tokens: for each
\* record and level 0..63 one ("A", UserId) and one ("B", Location) token,
\* under the record's Set and the record's own fresh document id.
C8_OneSubmissionPerBatch ==
    (call.op = "Insert" /\ wire # <<>>) =>
        LET q == wire[1]
            recs == call.recs
            n == Len(call.recs)
            Count(t) == Cardinality({k \in DOMAIN q.tkns : q.tkns[k] = t})
        IN  /\ Len(wire) = 1
            /\ q.kind = "Insert"
            /\ Len(q.docs) = n
            /\ Len(q.tkns) = 128 * n
            /\ \A j \in 1 .. n :
                  /\ q.docs[j].id >= call.firstId /\ q.docs[j].id < nextId
                  /\ \A k \in 1 .. n : q.docs[k].id = q.docs[j].id => k = j
                  /\ \A i \in 0 .. 63 :
                        /\ Count(ExpectedToken(q.docs[j].id, recs[j], "A", recs[j].UserId, i)) = 1
                        /\ Count(ExpectedToken(q.docs[j].id, recs[j], "B", recs[j].Location, i)) = 1
            /\ \A k \in DOMAIN q.tkns : <<q.tkns[k].tkn.set, q.tkns[k].tkn.kw>> \in idx

\* a batch of two records, different in user and location, that was submitted
C8_Witness ==
    /\ call.op = "Insert" /\ Len(call.recs) = 2 /\ Len(wire) = 1
    /\ Len(wire[1].tkns) = 256
    /\ call.recs[1].UserId # call.recs[2].UserId
    /\ call.recs[1].Location # call.recs[2].Location

\* the cover labels of the last query whose trapdoor is present
PresentLabels ==
    LET cover == rangeCover(call.a, call.b)
    IN  {k \in DOMAIN cover : <<call.set, <<"B", call.loc>> \o cover[k]>> \in idx}

TrapdoorsMatchPresent ==
    /\ ret.err = "nil"
    /\ Submitted
    /\ Len(wire[1].tkns) = Cardinality(PresentLabels)
    /\ \A k \in PresentLabels :
          Cardinality({i \in DOMAIN wire[1].tkns :
                          wire[1].tkns[i] =
                             [enc |-> "bson",
                              tkn |-> [set |-> call.set,
                                       kw |-> <<"B", call.loc>>
                                                 \o rangeCover(call.a, call.b)[k]]]}) = 1

\* C9 as claimed: absent trapdoors are skipped without failing the call, one
\* trapdoor is submitted per present cover label, and the submitted set is
\* not empty.
C9_SubmittedSetNonEmpty ==
    (IsFind /\ call.env = "ok") => (TrapdoorsMatchPresent /\ wire[1].tkns # <<>>)

\* C9 as amended: absent trapdoors are skipped without failing the call and
\* exactly one trapdoor is submitted per present cover label; the submission
\* is made even when that leaves no trapdoor.
C9_AbsentTrapdoorsSkipped ==
    (IsFind /\ call.env = "ok") =>
        /\ TrapdoorsMatchPresent
        /\ (wire[1].tkns = <<>>) <=> (PresentLabels = {})

\* a query with a cover label that is present and one that is absent
C9_Witness ==
    /\ IsFind /\ Submitted /\ ret.err = "nil"
    /\ PresentLabels # {}
    /\ Cardinality(PresentLabels) < Len(rangeCover(call.a, call.b))

\* C10 as claimed: an Insert that returns before submitting leaves the index
\* client's bookkeeping as it was.
C10_AbortLeavesIndexState ==
    [][(call'.op = "Insert" /\ Idle /\ wire' = <<>>) => idx' = idx]_vars

====
